---- MODULE Spec2Model ----
(***************************************************************************)
(* Code-quality pipeline of REYA (backend/routes): the line-oriented       *)
(* fixer transforms (roles_fixer.py), the guarded workspace writers        *)
(* (roles_fixer.apply_and_save, workspace.save_files) and the lint         *)
(* runners (roles_reviewer.lint, roles_reviewer_lint.lint_files).          *)
(*                                                                         *)
(* Text.  A Python str is modelled by the non-empty sequence of its        *)
(* newline-free pieces, i.e. by str.split("\n"):  "" is <<"">>, "a" is     *)
(* <<"a">>, "a\n" is <<"a", "">>, "a\n\nb" is <<"a", "", "b">>.  This is   *)
(* a bijection, so equality of models is byte equality of strings.         *)
(*                                                                         *)
(* Paths.  A request path is [abs, segs]: whether the string starts with   *)
(* "/" and its components ("." components dropped, as pathlib does).  A    *)
(* resolved absolute path is the sequence of its components from "/".      *)
(***************************************************************************)
EXTENDS Integers, Sequences, FiniteSets, TLC

VARIABLES
    \* ---- pure transform, applied once and then again to its own output
    tIn, tOut1, tOut2,
    \* ---- fixer requests: suggest_patches and apply on the same request
    fixReq, suggestReply, applyReply,
    \* ---- workspace on disk and the writers' last request and reply
    files, dirs, touched, now, wReq, wReply,
    \* ---- the host's tools, and one call of roles_reviewer.lint
    host, lintReq, tasks, lintPc, lintIssues, lintReply,
    \* ---- one call of roles_reviewer_lint.lint_files
    lfReq, lfPc, lfProc, lfIssues, lfStatus, lfReply, lfScratch, lfTree,
    \* ---- a one-shot prefill buffer and the GET and POST requests on it
    pfKind, prefillBuf, pfPending, getPc, getBuf, getReply

trVars    == <<tIn, tOut1, tOut2>>
fixVars   == <<fixReq, suggestReply, applyReply>>
writeVars == <<files, dirs, touched, now, wReq, wReply>>
lintVars  == <<lintReq, tasks, lintPc, lintIssues, lintReply>>
lfVars    == <<lfReq, lfPc, lfProc, lfIssues, lfStatus, lfReply, lfScratch, lfTree>>
pfVars    == <<pfKind, prefillBuf, pfPending, getPc, getBuf, getReply>>
vars      == <<trVars, fixVars, writeVars, host, lintVars, lfVars, pfVars>>

-----------------------------------------------------------------------------
(* Bounds *)

MaxSegs  == 3   \* pieces of a text given to the transform (MaxSegs-1 newlines)
MaxBatch == 2   \* files in one request
MaxClock == 1   \* clock seconds that can pass during a run
MaxLintFiles == 2   \* files in one lint request
MaxPosts == 2   \* POST requests on a prefill buffer
MaxGets  == 3   \* GET requests on a prefill buffer

-----------------------------------------------------------------------------
(* Sequence helpers *)

Last(s)  == s[Len(s)]
Front(s) == SubSeq(s, 1, Len(s) - 1)

RECURSIVE SeqsUpTo(_, _)
SeqsUpTo(S, n) ==
    IF n = 0 THEN {<<>>}
    ELSE LET shorter == SeqsUpTo(S, n - 1)
         IN  shorter \cup {Append(s, x) : s \in {t \in shorter : Len(t) = n - 1}, x \in S}

IsPrefix(p, q) == Len(p) <= Len(q) /\ SubSeq(q, 1, Len(p)) = p

\* Optional values are records told apart by their kind.
Absent == [kind |-> "none"]

-----------------------------------------------------------------------------
(* Text: str.splitlines and "\n".join *)

\* code.splitlines(): no trailing empty piece; "" has no lines at all.
SplitLines(t) == IF Last(t) = "" THEN Front(t) ELSE t

\* "\n".join(lines): the empty list joins to "".
JoinLines(ls) == IF ls = <<>> THEN <<"">> ELSE ls

\* contents.splitlines(keepends=True): the lines with their terminators;
\* every line but possibly the last ends in "\n".
KeepEnds(t) ==
    [i \in 1..Len(SplitLines(t)) |->
        [text |-> t[i], nl |-> i < Len(t)]]

\* The lines a file can hold.  The regular expressions of the fixer and the
\* substring tests of the fallback scanner are evaluated on these.
Blank      == ""
CodeLine   == "x = 1"
LogLine    == "console.log(x)"
JsTodoLine == "// TODO fix"
PyTodoLine == "# FIXME later"
AnyLine    == "let v: any"
UnknownLine == "let v: unknown"
ImportLine == "import pdb"

Lines == {Blank, CodeLine, LogLine, JsTodoLine, PyTodoLine, AnyLine, ImportLine}

Texts == SeqsUpTo(Lines, MaxSegs) \ {<<>>}

\* re.search(r"\bconsole\.log\s*\(", line)
MatchConsoleLog(line) == line = LogLine
\* re.search(r"//\s*(TODO|FIXME)\b", line)
MatchJsTodo(line) == line = JsTodoLine
\* re.search(r"#\s*(TODO|FIXME)\b", line)
MatchPyTodo(line) == line = PyTodoLine
\* re.sub(r":\s*any\b", ": unknown", .) on one line; no line of Lines ends in
\* ":" or starts with "any", so no match spans a newline.
SubAny(line) == IF line = AnyLine THEN UnknownLine ELSE line
\* ^\s*(from\s+\w+\s+import\s+\w+|import\s+\w+)\s*$ on one line
MatchImport(line) == line = ImportLine
IsBlank(line) == line = Blank

-----------------------------------------------------------------------------
(* roles_fixer.py: transforms *)

Strategies == {"safe", "aggressive"}

KeepJsTs(line) == ~MatchConsoleLog(line) /\ ~MatchJsTodo(line)

TransformJsTs(code, strategy) ==
    LET out_lines == SelectSeq(SplitLines(code), KeepJsTs)
        fixed     == JoinLines(out_lines)
    IN  IF strategy = "aggressive"
        THEN [i \in 1..Len(fixed) |-> SubAny(fixed[i])]
        ELSE fixed

\* Number of leading blank pieces of s.
RECURSIVE LeadingBlanks(_)
LeadingBlanks(s) ==
    IF s # <<>> /\ IsBlank(Head(s)) THEN 1 + LeadingBlanks(Tail(s)) ELSE 0

\* re.sub(IMPORT, "", text, flags=re.MULTILINE) on the pieces of text.  "^\s*"
\* swallows the blank lines before an import line and "\s*$" those after it
\* (up to, not including, the last newline before a non-blank line), and the
\* scan resumes where the match ended.
RECURSIVE StripImports(_)
StripImports(s) ==
    IF s = <<>> THEN <<>>
    ELSE LET j == LeadingBlanks(s)
         IN  IF j < Len(s) /\ MatchImport(s[j + 1])
             THEN LET m == j + 1
                      k == LeadingBlanks(SubSeq(s, m + 1, Len(s)))
                  IN  IF m + k = Len(s) THEN <<"">>
                      ELSE IF k = 0 THEN <<"">> \o StripImports(SubSeq(s, m + 1, Len(s)))
                      ELSE StripImports(SubSeq(s, m + k, Len(s)))
             ELSE <<Head(s)>> \o StripImports(Tail(s))

KeepPython(line) == ~MatchPyTodo(line)

TransformPython(code, strategy) ==
    LET out_lines == SelectSeq(SplitLines(code), KeepPython)
        fixed     == JoinLines(out_lines)
    IN  IF strategy = "aggressive" THEN StripImports(fixed) ELSE fixed

\* Path(path).suffix.lower() of the names used here.
Suffix(name) ==
    CASE name \in {"app.js", "b.js"}   -> ".js"
      [] name \in {"b.ts"}             -> ".ts"
      [] name \in {"a.py"}             -> ".py"
      [] name \in {"ok.txt", "n.txt"}  -> ".txt"
      [] OTHER                         -> ""

JsLikeExt == {".js", ".jsx", ".ts", ".tsx", ".mjs", ".cjs"}

\* difflib.unified_diff(a, b, ...) joined: empty when the line lists are
\* equal; otherwise the hunks, of which the model keeps both sides.
UnifiedDiff(a, b) ==
    IF a = b THEN [kind |-> "empty"] ELSE [kind |-> "diff", from |-> a, to |-> b]

\* Python truthiness of an Optional[str] diff: None and "" are falsy.
Truthy(udiff) == udiff.kind = "diff"

\* _suggest_for_file on a file whose name has suffix ext.
SuggestForExt(ext, contents, strategy) ==
    LET new_contents ==
            IF ext \in JsLikeExt THEN TransformJsTs(contents, strategy)
            ELSE IF ext = ".py" THEN TransformPython(contents, strategy)
            ELSE contents
    IN  IF new_contents = contents
        THEN [new |-> contents, diff |-> Absent]
        ELSE [new |-> new_contents,
              diff |-> UnifiedDiff(KeepEnds(contents), KeepEnds(new_contents))]

Exts == {".js", ".ts", ".py", ".txt"}

-----------------------------------------------------------------------------
(* The transform as a pure function: transform(f, s), then transform of its *)
(* output.                                                                  *)

TrInit ==
    /\ tIn \in [kind : {"in"}, ext : Exts, contents : Texts, strategy : Strategies]
    /\ tOut1 = Absent
    /\ tOut2 = Absent

TrIdle == tIn = Absent /\ tOut1 = Absent /\ tOut2 = Absent

Transform ==
    /\ tIn # Absent /\ tOut1 = Absent
    /\ tOut1' = [kind |-> "out"] @@ SuggestForExt(tIn.ext, tIn.contents, tIn.strategy)
    /\ UNCHANGED <<tIn, tOut2, fixVars, writeVars, host, lintVars, lfVars, pfVars>>

TransformAgain ==
    /\ tOut1 # Absent /\ tOut2 = Absent
    /\ tOut2' = [kind |-> "out"] @@ SuggestForExt(tIn.ext, tOut1.new, tIn.strategy)
    /\ UNCHANGED <<tIn, tOut1, fixVars, writeVars, host, lintVars, lfVars, pfVars>>

-----------------------------------------------------------------------------
(* Paths and the disk *)

\* WORKSPACE_ROOT, already resolved: /srv/ws
Root == <<"srv", "ws">>

\* The one symbolic link of the modelled disk: /srv/ws/lnk -> /etc
LinkTarget(p) == IF p = Root \o <<"lnk">> THEN <<"etc">> ELSE p

\* Path.resolve(): components applied left to right, ".." leaving a directory
\* ("/" is its own parent) and links followed as they are met.
RECURSIVE ResolveFrom(_, _)
ResolveFrom(cur, segs) ==
    IF segs = <<>> THEN cur
    ELSE LET s == Head(segs)
             nxt == IF s = ".." THEN Front(cur) ELSE LinkTarget(Append(cur, s))
         IN  ResolveFrom(nxt, Tail(segs))

\* (WORKSPACE_ROOT / path).resolve(): an absolute right operand replaces the root.
AbsPath(path) == ResolveFrom(IF path.abs THEN <<>> ELSE Root, path.segs)

\* The containment test made against the root's parent directory.
ContainedInParent(abs) == IsPrefix(Front(Root), abs)

\* WORKSPACE_ROOT in abs_path.parents or WORKSPACE_ROOT == abs_path
Contained(abs) == IsPrefix(Root, abs)

PathSuffix(path) == IF path.segs = <<>> THEN "" ELSE Suffix(Last(path.segs))

\* _suggest_for_file(path, contents, strategy)
SuggestForFile(path, contents, strategy) ==
    SuggestForExt(PathSuffix(path), contents, strategy)

Prefixes(p) == {SubSeq(p, 1, k) : k \in 0..Len(p)}

Exists(fs, ds, p) == p \in DOMAIN fs \/ p \in ds

Put(fs, p, c) == [q \in DOMAIN fs \cup {p} |-> IF q = p THEN c ELSE fs[q]]

\* Path.mkdir(parents=True, exist_ok=True) of directory d: fails when d or one
\* of its ancestors is a regular file, else creates what is missing.
Mkdir(fs, ds, d) ==
    IF d \in ds THEN [ok |-> TRUE, dirs |-> ds, made |-> {}]
    ELSE IF \E q \in Prefixes(d) : q \in DOMAIN fs
         THEN [ok |-> FALSE, dirs |-> ds, made |-> {}]
         ELSE [ok |-> TRUE, dirs |-> ds \cup Prefixes(d), made |-> Prefixes(d) \ ds]

\* open(p, "w") / Path.write_text: fails on a directory (IsADirectoryError)
\* and when the parent is no directory.
CanWrite(fs, ds, p) == p \notin ds /\ p # <<>> /\ Front(p) \in ds

\* The paths and contents requests are drawn from.
RelPath(segs) == [abs |-> FALSE, segs |-> segs]
AbsReqPath(segs) == [abs |-> TRUE, segs |-> segs]

WPaths ==
    { RelPath(<<"ok.txt">>),                    \* ok.txt
      RelPath(<<"a", "app.js">>),               \* a/app.js
      RelPath(<<"..", "secret">>),              \* ../secret
      AbsReqPath(<<"etc", "passwd">>),          \* /etc/passwd
      RelPath(<<"a", "..", "..", "b">>),        \* a/../../b
      RelPath(<<"lnk", "x">>),                  \* lnk/x, through the link
      AbsReqPath(<<"srv", "ws", "ok.txt">>),    \* /srv/ws/ok.txt
      RelPath(<<>>) }                           \* "."

WContents == {<<CodeLine>>, <<LogLine, CodeLine>>}

WBlobs == [path : WPaths, contents : WContents]

WBatches == SeqsUpTo(WBlobs, MaxBatch)

OldText == <<"old">>

BaseDirs  == {<<>>, <<"srv">>, Root, <<"etc">>}
BaseFiles == (<<"etc", "passwd">> :> OldText)

\* The workspace as a request can find it: empty, holding ok.txt, or holding
\* a regular file named a.
Layouts ==
    { BaseFiles,
      Put(BaseFiles, Root \o <<"ok.txt">>, OldText),
      Put(BaseFiles, Root \o <<"a">>, OldText) }

-----------------------------------------------------------------------------
(* roles_fixer.py: apply_and_save *)

RefusedErr(path, abs) == [kind |-> "refused", path |-> path, abs |-> abs]
IoErr(path, abs)      == [kind |-> "io", path |-> path, abs |-> abs]

\* One iteration of the loop over req.files.
ApplyAndSaveStep(acc, f) ==
    LET sug   == SuggestForFile(f.path, f.contents, "safe")
        udiff == sug.diff
        out   == [path |-> f.path,
                  contents |-> IF Truthy(udiff) THEN sug.new ELSE f.contents]
        acc1  == [acc EXCEPT !.out_files = Append(@, out)]
        abs   == AbsPath(f.path)
        mk    == Mkdir(acc.files, acc.dirs, Front(abs))
        acc2  == [acc1 EXCEPT !.dirs = mk.dirs, !.touched = @ \cup mk.made]
    IN  IF ~Contained(abs)
        THEN [acc1 EXCEPT !.errors = Append(@, RefusedErr(f.path, abs))]
        ELSE IF ~mk.ok
        THEN [acc1 EXCEPT !.errors = Append(@, IoErr(f.path, abs))]
        ELSE IF ~CanWrite(acc2.files, acc2.dirs, abs)
        THEN [acc2 EXCEPT !.errors = Append(@, IoErr(f.path, abs))]
        ELSE [acc2 EXCEPT !.files = Put(@, abs, out.contents),
                          !.touched = @ \cup {abs},
                          !.files_written = Append(@, abs),
                          !.ntouched = @ + (IF Truthy(udiff) THEN 1 ELSE 0)]

\* A loop that stops at the first file recorded in errors.
RECURSIVE ApplyAndSaveLoopAborting(_, _)
ApplyAndSaveLoopAborting(acc, fs) ==
    IF fs = <<>> \/ acc.errors # <<>> THEN acc
    ELSE ApplyAndSaveLoopAborting(ApplyAndSaveStep(acc, Head(fs)), Tail(fs))

RECURSIVE ApplyAndSaveLoop(_, _)
ApplyAndSaveLoop(acc, fs) ==
    IF fs = <<>> THEN acc
    ELSE ApplyAndSaveLoop(ApplyAndSaveStep(acc, Head(fs)), Tail(fs))

\* A reply that is a server error whatever status was meant.
HttpServerError(status) == [kind |-> "http", status |-> 500]

Http(status) == [kind |-> "http", status |-> status]

ApplyAndSave(req) ==
    /\ wReq = Absent
    /\ wReq' = [kind |-> "apply_and_save", files |-> req]
    /\ IF req = <<>>
       THEN /\ wReply' = Http(422)
            /\ UNCHANGED <<files, dirs, touched>>
       ELSE LET acc == ApplyAndSaveLoop(
                         [files |-> files, dirs |-> dirs, touched |-> touched,
                          out_files |-> <<>>, files_written |-> <<>>,
                          errors |-> <<>>, ntouched |-> 0], req)
            IN  /\ files' = acc.files
                /\ dirs' = acc.dirs
                /\ touched' = acc.touched
                /\ wReply' = [kind |-> "ok",
                              ok |-> acc.errors = <<>>,
                              touched |-> acc.ntouched,
                              written |-> Len(acc.files_written),
                              files_written |-> acc.files_written,
                              errors |-> acc.errors,
                              files |-> acc.out_files]
    /\ UNCHANGED now

-----------------------------------------------------------------------------
(* workspace.py: save_files *)

\* _guarded_path(rel): the resolved target, or the HTTPException it raises.
GuardedPath(rel) ==
    IF rel.abs THEN [ok |-> FALSE, full |-> <<>>, why |-> "absolute"]
    ELSE LET full == AbsPath(rel)
         IN  IF ~Contained(full)
             THEN [ok |-> FALSE, full |-> full, why |-> "escapes"]
             ELSE [ok |-> TRUE, full |-> full, why |-> ""]

\* A backup name without the timestamp.
BakPathUnstamped(target, ts) ==
    Append(Front(target), Last(target) \o ".bak")

\* target.with_suffix(target.suffix + f".{_timestamp()}.bak")
BakPath(target, ts) ==
    Append(Front(target), Last(target) \o "." \o ToString(ts) \o ".bak")

NoBak == [kind |-> "none"]
Bak(p) == [kind |-> "path", at |-> p]

SaveResult(path, saved, message, bak) ==
    [path |-> path, saved |-> saved, message |-> message, backup_path |-> bak]

\* One iteration of the loop over req.files; ts is what _timestamp() returns
\* if this iteration calls it.  acc.raised is set by a re-raised HTTPException,
\* which ends the loop and the request.
SaveStep(acc, f, backup, overwrite, ts) ==
    LET g     == GuardedPath(f.path)
        tgt   == g.full
        mk    == Mkdir(acc.files, acc.dirs, Front(tgt))
        acc1  == [acc EXCEPT !.dirs = mk.dirs, !.touched = @ \cup mk.made]
        doBak == backup /\ Exists(acc1.files, acc1.dirs, tgt)
        bak   == BakPath(tgt, ts)
        \* bak_path.write_text(target.read_text()): the read fails on a directory
        bakOk == tgt \in DOMAIN acc1.files /\ CanWrite(acc1.files, acc1.dirs, bak)
        acc2  == IF doBak
                 THEN [acc1 EXCEPT !.files = Put(@, bak, acc1.files[tgt]),
                                   !.touched = @ \cup {bak}]
                 ELSE acc1
        bakp  == IF doBak THEN Bak(bak) ELSE NoBak
        IoFail(a) == [a EXCEPT !.results = Append(@, SaveResult(f.path, FALSE, "io", NoBak)),
                               !.errors = @ + 1]
    IN  IF ~g.ok THEN [acc EXCEPT !.raised = TRUE]
        ELSE IF ~mk.ok THEN IoFail(acc)
        ELSE IF doBak /\ ~bakOk THEN IoFail(acc1)
        ELSE IF Exists(acc2.files, acc2.dirs, tgt) /\ ~overwrite
        THEN [acc2 EXCEPT !.results = Append(@, SaveResult(f.path, FALSE, "exists", bakp)),
                          !.skipped = @ + 1]
        ELSE IF ~CanWrite(acc2.files, acc2.dirs, tgt) THEN IoFail(acc2)
        ELSE [acc2 EXCEPT !.files = Put(@, tgt, f.contents),
                          !.touched = @ \cup {tgt},
                          !.results = Append(@, SaveResult(f.path, TRUE, "", bakp)),
                          !.saved = @ + 1]

RECURSIVE SaveLoop(_, _, _, _, _)
SaveLoop(acc, fs, backup, overwrite, clk) ==
    IF fs = <<>> \/ acc.raised THEN acc
    ELSE SaveLoop(SaveStep(acc, Head(fs), backup, overwrite, Head(clk)),
                  Tail(fs), backup, overwrite, Tail(clk))

\* The clock readings of one request: one per file, never going back.
ClockReadings(n, backup) ==
    IF backup
    THEN {c \in [1..n -> now..MaxClock] : \A i \in 1..(n - 1) : c[i] <= c[i + 1]}
    ELSE {[i \in 1..n |-> now]}

SaveFiles(req, backup, overwrite, clk) ==
    /\ wReq = Absent
    /\ wReq' = [kind |-> "save", files |-> req, backup |-> backup, overwrite |-> overwrite]
    /\ IF req = <<>>
       THEN /\ wReply' = Http(422)
            /\ UNCHANGED <<files, dirs, touched, now>>
       ELSE LET acc == SaveLoop(
                         [files |-> files, dirs |-> dirs, touched |-> touched,
                          results |-> <<>>, saved |-> 0, skipped |-> 0,
                          errors |-> 0, raised |-> FALSE],
                         req, backup, overwrite, clk)
            IN  /\ files' = acc.files
                /\ dirs' = acc.dirs
                /\ touched' = acc.touched
                /\ now' = clk[Len(req)]
                /\ wReply' = IF acc.raised THEN Http(400)
                             ELSE [kind |-> "ok",
                                   ok |-> acc.errors = 0,
                                   results |-> acc.results,
                                   stats |-> [saved |-> acc.saved, skipped |-> acc.skipped,
                                              errors |-> acc.errors, total |-> Len(req)]]

-----------------------------------------------------------------------------
(* roles_fixer.py: suggest_patches and apply *)

FixPaths == {RelPath(<<"app.js">>), RelPath(<<"a.py">>), RelPath(<<"n.txt">>)}

FixContents ==
    { <<LogLine, AnyLine>>,         \* "console.log(x)\nlet v: any"
      <<CodeLine>>,                 \* "x = 1"
      <<CodeLine, Blank>>,          \* "x = 1\n"
      <<PyTodoLine, ImportLine>> }  \* "# FIXME later\nimport pdb"

FixBlobs == [path : FixPaths, contents : FixContents]

\* only_paths: None, [], or a list naming a submitted or an unknown file.
OnlyPathsChoices ==
    { Absent,
      [kind |-> "list", paths |-> {}],
      [kind |-> "list", paths |-> {RelPath(<<"app.js">>)}],
      [kind |-> "list", paths |-> {RelPath(<<"ghost.js">>)}] }

\* The paths named by req.issues and req.findings.
IssuePathsChoices == {{}, {RelPath(<<"ghost.js">>)}}

FixRequests ==
    [kind : {"req"}, files : SeqsUpTo(FixBlobs, MaxBatch), strategy : Strategies,
     only_paths : OnlyPathsChoices, issue_paths : IssuePathsChoices]

\* An iteration that emits a Patch for every file it inspects.
SuggestStepAlwaysPatching(acc, fb, only, candidate_paths, strategy) ==
    IF only # {} /\ fb.path \notin only THEN acc
    ELSE IF fb.path \notin candidate_paths THEN acc
    ELSE LET sug == SuggestForFile(fb.path, fb.contents, strategy)
         IN  [acc EXCEPT !.inspected = @ + 1,
                         !.patches = Append(@, [path |-> fb.path, diff |-> sug.diff]),
                         !.changed = @ + 1]

\* One iteration of the loop over req.files in suggest_patches.
SuggestStep(acc, fb, only, candidate_paths, strategy) ==
    IF only # {} /\ fb.path \notin only THEN acc
    ELSE IF fb.path \notin candidate_paths THEN acc
    ELSE LET sug == SuggestForFile(fb.path, fb.contents, strategy)
             acc1 == [acc EXCEPT !.inspected = @ + 1]
         IN  IF Truthy(sug.diff)
             THEN [acc1 EXCEPT !.patches = Append(@, [path |-> fb.path, diff |-> sug.diff]),
                               !.changed = @ + 1]
             ELSE acc1

RECURSIVE SuggestLoop(_, _, _, _, _)
SuggestLoop(acc, fs, only, candidate_paths, strategy) ==
    IF fs = <<>> THEN acc
    ELSE SuggestLoop(SuggestStep(acc, Head(fs), only, candidate_paths, strategy),
                     Tail(fs), only, candidate_paths, strategy)

SuggestPatches ==
    /\ fixReq # Absent /\ suggestReply = Absent
    /\ suggestReply' =
         IF fixReq.files = <<>> THEN Http(422)
         ELSE LET only == IF fixReq.only_paths = Absent THEN {} ELSE fixReq.only_paths.paths
                  candidate_paths ==
                      {fixReq.files[i].path : i \in 1..Len(fixReq.files)}
                          \cup fixReq.issue_paths
                  acc == SuggestLoop([patches |-> <<>>, changed |-> 0, inspected |-> 0],
                                     fixReq.files, only, candidate_paths, fixReq.strategy)
              IN  [kind |-> "ok", patches |-> acc.patches,
                   stats |-> [inspected |-> acc.inspected, changed |-> acc.changed]]
    /\ UNCHANGED <<fixReq, applyReply, trVars, writeVars, host, lintVars, lfVars, pfVars>>

\* The strategy apply hands to _suggest_for_file: ApplyReq carries none.
ApplyStrategy(req) == "safe"

\* One iteration of the loop over req.files in apply.
ApplyStep(acc, f, strategy) ==
    LET sug == SuggestForFile(f.path, f.contents, strategy)
    IN  IF Truthy(sug.diff)
        THEN [acc EXCEPT !.out_files = Append(@, [path |-> f.path, contents |-> sug.new]),
                         !.touched = @ + 1]
        ELSE [acc EXCEPT !.out_files = Append(@, f)]

RECURSIVE ApplyLoop(_, _, _)
ApplyLoop(acc, fs, strategy) ==
    IF fs = <<>> THEN acc
    ELSE ApplyLoop(ApplyStep(acc, Head(fs), strategy), Tail(fs), strategy)

Apply ==
    /\ fixReq # Absent /\ applyReply = Absent
    /\ applyReply' =
         IF fixReq.files = <<>> THEN Http(422)
         ELSE LET acc == ApplyLoop([out_files |-> <<>>, touched |-> 0],
                                   fixReq.files, ApplyStrategy(fixReq))
              IN  [kind |-> "ok", files |-> acc.out_files, touched |-> acc.touched]
    /\ UNCHANGED <<fixReq, suggestReply, trVars, writeVars, host, lintVars, lfVars, pfVars>>

FixInit ==
    /\ fixReq \in FixRequests
    /\ suggestReply = Absent
    /\ applyReply = Absent

FixIdle == fixReq = Absent /\ suggestReply = Absent /\ applyReply = Absent

-----------------------------------------------------------------------------
(* roles_reviewer.py: tool discovery, runners, fallback scan *)

\* What shutil.which finds and whether sys.executable is set.
Hosts == [npx : BOOLEAN, eslint : BOOLEAN, ruff : BOOLEAN, pyexe : BOOLEAN]

NoTools  == [npx |-> FALSE, eslint |-> FALSE, ruff |-> FALSE, pyexe |-> FALSE]
AllTools == [npx |-> TRUE, eslint |-> TRUE, ruff |-> TRUE, pyexe |-> TRUE]

\* _eslint_available()
EslintAvailable(h) == h.npx \/ h.eslint

\* _ruff_cmd() is not None
RuffCmdFound(h) == h.ruff \/ h.pyexe

\* _is_js_like(path), _is_py(path): tests on the end of the lower-cased string
IsJsLike(path) == PathSuffix(path) \in JsLikeExt
IsPy(path) == PathSuffix(path) = ".py"

\* The file an issue names: the caller's path, the absolute form a tool
\* reports for it, or some other string.
FileRef(form, path) == [form |-> form, path |-> path]

Issue(file, line, severity, source) ==
    [file |-> file, line |-> line, severity |-> severity, source |-> source]

\* "console.log(" in line;  "TODO" in line or "FIXME" in line
HasConsoleLog(line) == line = LogLine
HasTodo(line) == line \in {JsTodoLine, PyTodoLine}

\* The issues _inline_fallback_scan appends for line i of file f.
ScanLine(f, i, line) ==
    (IF HasConsoleLog(line)
     THEN <<Issue(FileRef("rel", f.path), i, "warning", "inline")>> ELSE <<>>)
    \o
    (IF HasTodo(line)
     THEN <<Issue(FileRef("rel", f.path), i, "info", "inline")>> ELSE <<>>)

RECURSIVE ScanLines(_, _, _)
ScanLines(f, lines, i) ==
    IF i > Len(lines) THEN <<>>
    ELSE ScanLine(f, i, lines[i]) \o ScanLines(f, lines, i + 1)

\* _inline_fallback_scan(files)
RECURSIVE InlineFallbackScan(_)
InlineFallbackScan(fs) ==
    IF fs = <<>> THEN <<>>
    ELSE ScanLines(Head(fs), SplitLines(Head(fs).contents), 1)
             \o InlineFallbackScan(Tail(fs))

\* What a tool process can print.  A finding names its file as the caller did
\* ("same", also when the field is missing) or in absolute form ("abs"), and
\* is of the tool's higher (2) or lower (1) class.
Finding(file, line, class) == [file |-> file, line |-> line, class |-> class]

OutEmpty    == [kind |-> "empty"]      \* nothing on stdout
OutGarbage  == [kind |-> "garbage"]    \* not JSON
OutBadShape == [kind |-> "badshape"]   \* JSON, but no list of objects
OutFindings(fs) == [kind |-> "findings", findings |-> fs]

ToolOutputs ==
    { OutEmpty, OutGarbage, OutBadShape,
      OutFindings(<<>>),
      OutFindings(<<Finding("same", 2, 1)>>),
      OutFindings(<<Finding("same", 2, 1), Finding("same", 1, 2)>>),
      OutFindings(<<Finding("abs", 1, 2)>>) }

ExitCodes == {0, 1, 2}

Raised == [kind |-> "exc"]
Returned(issues) == [kind |-> "issues", issues |-> issues]

\* The ReviewIssue _run_eslint_stdin builds from one message.
EslintIssue(f, m) ==
    Issue(FileRef(IF m.file = "abs" THEN "abs" ELSE "rel", f.path), m.line,
          IF m.class = 2 THEN "error" ELSE "warning", "eslint")

\* The ReviewIssue _run_ruff_stdin builds from one diagnostic (class 1 is
\* type "warning").
RuffIssue(f, m) ==
    Issue(FileRef(IF m.file = "abs" THEN "abs" ELSE "rel", f.path), m.line,
          IF m.class = 1 THEN "warning" ELSE "error", "ruff")

\* _run_eslint_stdin after _run_proc returned (rc, out).
EslintParse(f, rc, out) ==
    IF rc \notin {0, 1} THEN Returned(<<>>)
    ELSE CASE out.kind = "empty"    -> Returned(<<>>)
           [] out.kind = "garbage"  -> Returned(<<>>)
           [] out.kind = "badshape" -> Raised
           [] out.kind = "findings" ->
                Returned([i \in 1..Len(out.findings) |-> EslintIssue(f, out.findings[i])])

\* _run_ruff_stdin after _run_proc returned (rc, out).
RuffParse(f, rc, out) ==
    CASE out.kind = "empty"    -> Returned(<<>>)
      [] out.kind = "garbage"  -> Returned(<<>>)
      [] out.kind = "badshape" -> Raised
      [] out.kind = "findings" ->
           Returned([i \in 1..Len(out.findings) |-> RuffIssue(f, out.findings[i])])

ToolParse(tool, f, rc, out) ==
    IF tool = "eslint" THEN EslintParse(f, rc, out) ELSE RuffParse(f, rc, out)

\* _run_proc on expiry of wait_for: the process is killed, (124, "", ...) returned.
TimeoutCode == 124

\* Whether the runner of this tool gets as far as spawning a process.
\* GET /lint/health: the "tools" object without its "python" entry.
LintHealth(h) ==
    [npx |-> h.npx, eslint |-> h.eslint, ruff |-> h.ruff \/ h.pyexe]

\* A runner that looks at the file kind only.
WouldSpawnUnresolved(tool, h, path) ==
    IF tool = "eslint" THEN IsJsLike(path) ELSE IsPy(path)

WouldSpawn(tool, h, path) ==
    IF tool = "eslint" THEN EslintAvailable(h) /\ IsJsLike(path)
    ELSE IsPy(path) /\ RuffCmdFound(h)

-----------------------------------------------------------------------------
(* roles_reviewer.py: lint, as the event loop runs it *)

LintBlobs ==
    { [path |-> RelPath(<<"b.js">>),  contents |-> <<CodeLine, LogLine>>],
      [path |-> RelPath(<<"b.js">>),  contents |-> <<CodeLine>>],
      [path |-> RelPath(<<"a.py">>),  contents |-> <<PyTodoLine, CodeLine, Blank>>],
      [path |-> RelPath(<<"a.py">>),  contents |-> <<CodeLine>>],
      [path |-> RelPath(<<"n.txt">>), contents |-> <<LogLine>>] }

LintRequests == [kind : {"req"}, files : SeqsUpTo(LintBlobs, MaxLintFiles)]

\* The hosts lint is run on: no tool, every tool, npx alone, the interpreter alone.
LintHosts ==
    { NoTools, AllTools,
      [NoTools EXCEPT !.npx = TRUE],
      [NoTools EXCEPT !.pyexe = TRUE] }

NewTask(tool, i) ==
    [tool |-> tool, file |-> i, st |-> "pending", proc |-> "none", res |-> Absent]

\* [asyncio.create_task(runner(f)) for f in req.files if applies(f.path)]
RECURSIVE TasksFor(_, _, _)
TasksFor(tool, fs, i) ==
    IF i > Len(fs) THEN <<>>
    ELSE (IF (IF tool = "eslint" THEN IsJsLike(fs[i].path) ELSE IsPy(fs[i].path))
          THEN <<NewTask(tool, i)>> ELSE <<>>)
         \o TasksFor(tool, fs, i + 1)

TaskIdx == 1..Len(tasks)
TasksOf(tool) == {t \in TaskIdx : tasks[t].tool = tool}
AllDone(tool) == \A t \in TasksOf(tool) : tasks[t].st = "done"

\* await asyncio.gather(*group, return_exceptions=True): the results in task
\* order, exceptions among them; the await itself does not raise.
GatherOutcomePropagating(group) ==
    [raised |-> \E i \in 1..Len(group) : group[i].res.kind = "exc",
     results |-> [i \in 1..Len(group) |-> group[i].res]]

GatherOutcome(group) ==
    [raised |-> FALSE, results |-> [i \in 1..Len(group) |-> group[i].res]]

\* A loop body that starts the list afresh at an invocation yielding nothing.
CollectStepRestarting(issues, res) ==
    IF res.kind = "exc" THEN issues
    ELSE IF res.issues = <<>> THEN <<>> ELSE issues \o res.issues

\* The loop body over a gathered group: exceptions skipped, lists appended.
CollectStep(issues, res) ==
    IF res.kind = "exc" THEN issues ELSE issues \o res.issues

RECURSIVE Collect(_, _)
Collect(issues, results) ==
    IF results = <<>> THEN issues
    ELSE Collect(CollectStep(issues, Head(results)), Tail(results))

\* A scan made whatever the tools produced.
FallbackAlways(issues) == TRUE

\* if not issues: ...
FallbackNeeded(issues) == issues = <<>>

\* The group with its tasks in the opposite order.
GroupOfReversed(tool) ==
    LET g == SelectSeq(tasks, LAMBDA t : t.tool = tool)
    IN  [i \in 1..Len(g) |-> g[Len(g) + 1 - i]]

GroupOf(tool) == SelectSeq(tasks, LAMBDA t : t.tool = tool)

\* lint up to its first await: validation and task creation.
LintStart ==
    /\ lintPc = "idle" /\ lintReq # Absent
    /\ IF lintReq.files = <<>>
       THEN /\ lintReply' = Http(422)
            /\ lintPc' = "done"
            /\ UNCHANGED tasks
       ELSE /\ tasks' = TasksFor("eslint", lintReq.files, 1)
                            \o TasksFor("ruff", lintReq.files, 1)
            /\ lintPc' = "gather_eslint"
            /\ UNCHANGED lintReply
    /\ UNCHANGED <<lintReq, lintIssues, host, trVars, fixVars, writeVars, lfVars, pfVars>>

SpawnOutcomes == {"fail", "live", "hung"}

\* A runner from its start to its first suspension: it returns [] without a
\* process, or create_subprocess_exec raises, or the process is running (and
\* will exit by itself, or never will).
TaskStart(t) ==
    /\ lintPc \in {"gather_eslint", "gather_ruff"}
    /\ tasks[t].st = "pending"
    /\ IF ~WouldSpawn(tasks[t].tool, host, lintReq.files[tasks[t].file].path)
       THEN tasks' = [tasks EXCEPT ![t].st = "done", ![t].res = Returned(<<>>)]
       ELSE \E sp \in SpawnOutcomes :
              tasks' = IF sp = "fail"
                       THEN [tasks EXCEPT ![t].st = "done", ![t].res = Raised]
                       ELSE [tasks EXCEPT ![t].st = "running", ![t].proc = sp]
    /\ UNCHANGED <<lintReq, lintPc, lintIssues, lintReply, host, trVars, fixVars, writeVars, lfVars, pfVars>>

\* proc.communicate() returns within the timeout.
ProcExit(t) ==
    /\ tasks[t].st = "running" /\ tasks[t].proc = "live"
    /\ \E rc \in ExitCodes, out \in ToolOutputs :
          tasks' = [tasks EXCEPT
                      ![t].st = "done", ![t].proc = "exited",
                      ![t].res = ToolParse(tasks[t].tool,
                                           lintReq.files[tasks[t].file], rc, out)]
    /\ UNCHANGED <<lintReq, lintPc, lintIssues, lintReply, host, trVars, fixVars, writeVars, lfVars, pfVars>>

\* An expiry that ends the wait and leaves the process running.
ProcTimeoutNoKill(t) ==
    /\ tasks[t].st = "running"
    /\ tasks' = [tasks EXCEPT
                   ![t].st = "done",
                   ![t].res = ToolParse(tasks[t].tool, lintReq.files[tasks[t].file],
                                        TimeoutCode, OutEmpty)]
    /\ UNCHANGED <<lintReq, lintPc, lintIssues, lintReply, host, trVars, fixVars, writeVars, lfVars, pfVars>>

\* asyncio.wait_for expires: the process is killed and the runner goes on
\* with (124, "", ...).
ProcTimeout(t) ==
    /\ tasks[t].st = "running"
    /\ tasks' = [tasks EXCEPT
                   ![t].st = "done", ![t].proc = "killed",
                   ![t].res = ToolParse(tasks[t].tool, lintReq.files[tasks[t].file],
                                        TimeoutCode, OutEmpty)]
    /\ UNCHANGED <<lintReq, lintPc, lintIssues, lintReply, host, trVars, fixVars, writeVars, lfVars, pfVars>>

\* The first gather returns and its results are collected.
GatherEslint ==
    /\ lintPc = "gather_eslint" /\ AllDone("eslint")
    /\ LET g == GatherOutcome(GroupOf("eslint"))
       IN  IF g.raised
           THEN /\ lintReply' = Http(500)
                /\ lintPc' = "done"
                /\ UNCHANGED lintIssues
           ELSE /\ lintIssues' = Collect(lintIssues, g.results)
                /\ lintPc' = "gather_ruff"
                /\ UNCHANGED lintReply
    /\ UNCHANGED <<lintReq, tasks, host, trVars, fixVars, writeVars, lfVars, pfVars>>

\* The second gather returns; collection, fallback and the reply.
GatherRuff ==
    /\ lintPc = "gather_ruff" /\ AllDone("ruff")
    /\ LET g == GatherOutcome(GroupOf("ruff"))
           merged == Collect(lintIssues, g.results)
           issues == IF FallbackNeeded(merged)
                     THEN InlineFallbackScan(lintReq.files) ELSE merged
       IN  IF g.raised
           THEN /\ lintReply' = Http(500)
                /\ UNCHANGED lintIssues
           ELSE /\ lintReply' = [kind |-> "ok", issues |-> issues]
                /\ lintIssues' = merged
    /\ lintPc' = "done"
    /\ UNCHANGED <<lintReq, tasks, host, trVars, fixVars, writeVars, lfVars, pfVars>>

LintInit ==
    /\ host \in LintHosts
    /\ lintReq \in LintRequests
    /\ tasks = <<>>
    /\ lintPc = "idle"
    /\ lintIssues = <<>>
    /\ lintReply = Absent

LintIdle ==
    /\ lintReq = Absent /\ tasks = <<>> /\ lintPc = "idle"
    /\ lintIssues = <<>> /\ lintReply = Absent

-----------------------------------------------------------------------------
(* roles_reviewer_lint.py: lint_files, a blocking handler run tool by tool *)

\* tempfile.mkdtemp(prefix="reya_lint_")
ScratchDir == <<"tmp", "reya_lint_0">>

\* os.path.join(td, f.path), as open() then resolves it: an absolute f.path
\* replaces td.
ScratchPath(path) == ResolveFrom(IF path.abs THEN <<>> ELSE ScratchDir, path.segs)

\* Whether p is a directory once the files of tree are written under the
\* scratch directory: an ancestor of the scratch directory or of a file.
IsTreeDir(tree, p) ==
    \/ IsPrefix(p, ScratchDir)
    \/ \E q \in tree : p # q /\ IsPrefix(p, q)

\* One iteration of _write_temp_tree: os.makedirs of the parent fails when an
\* ancestor is a file already written, open(full, "w") when full is a directory.
WriteTempStep(acc, f) ==
    LET full == ScratchPath(f.path)
    IN  IF \/ full = <<>>
           \/ \E q \in Prefixes(Front(full)) : q \in acc.tree
           \/ IsTreeDir(acc.tree, full)
        THEN [acc EXCEPT !.ok = FALSE]
        ELSE [acc EXCEPT !.tree = @ \cup {full}]

RECURSIVE WriteTempLoop(_, _)
WriteTempLoop(acc, fs) ==
    IF fs = <<>> \/ ~acc.ok THEN acc
    ELSE WriteTempLoop(WriteTempStep(acc, Head(fs)), Tail(fs))

\* _write_temp_tree(files): the files it leaves on disk, and whether it
\* returned (ok) or raised on the way.
WriteTempTree(fs) == WriteTempLoop([ok |-> TRUE, tree |-> {}], fs)

\* The request's files a tool run in the scratch directory can report.
InScratch(fs, tool) ==
    { fs[i].path : i \in { j \in 1..Len(fs) :
          /\ IsPrefix(ScratchDir, ScratchPath(fs[j].path))
          /\ IF tool = "eslint" THEN IsJsLike(fs[j].path) ELSE IsPy(fs[j].path) } }

\* What a tool run over the tree can print.  For ESLint class 2 is severity 2;
\* for Ruff class 1 is a code beginning with E or F.
LfOutputs(fs, tool) ==
    { OutEmpty, OutGarbage, OutBadShape, OutFindings(<<>>) }
    \cup { OutFindings(<<Finding(p, 1, 1)>>) : p \in InScratch(fs, tool) }
    \cup { OutFindings(<<Finding(p, 2, 2), Finding(p, 1, 0), Finding(p, 1, 1)>>) :
               p \in InScratch(fs, tool) }

LfEslintIssue(m) ==
    Issue(FileRef("rel", m.file), m.line,
          IF m.class = 2 THEN "error" ELSE "warning", "eslint")

LfRuffIssue(m) ==
    Issue(FileRef("rel", m.file), m.line,
          IF m.class = 1 THEN "warning" ELSE "info", "ruff")

ToolOk(issues) == [ok |-> TRUE, issues |-> issues]
ToolFailed(error) == [ok |-> FALSE, error |-> error, issues |-> <<>>]

\* The part of _run_eslint / _run_ruff after subprocess.run returned: every
\* exception of the parse is caught.
LfParse(tool, out) ==
    CASE out.kind = "empty"    -> ToolOk(<<>>)
      [] out.kind = "garbage"  -> ToolFailed("run failed")
      [] out.kind = "badshape" -> ToolFailed("run failed")
      [] out.kind = "findings" ->
           ToolOk([i \in 1..Len(out.findings) |->
                      IF tool = "eslint" THEN LfEslintIssue(out.findings[i])
                      ELSE LfRuffIssue(out.findings[i])])

\* Whether _run_eslint / _run_ruff find a command to run.
LfToolFound(tool, h) ==
    IF tool = "eslint" THEN h.npx \/ h.eslint ELSE h.ruff \/ h.pyexe

\* Order of the path strings under Python's string comparison.
PathRank(path) ==
    LET name == IF path.segs = <<>> THEN "" ELSE Last(path.segs)
        base == CASE name = "a.py"  -> 1
                  [] name = "b.js"  -> 2
                  [] name = "n.txt" -> 3
                  [] OTHER          -> 4
    IN  IF path.abs THEN 0 ELSE base

\* key=lambda i: (i.file or "", (i.line or 0), 0 if i.severity == "error" else 1)
SortKey(i) == <<PathRank(i.file.path), i.line, IF i.severity = "error" THEN 0 ELSE 1>>

\* Tuple comparison a < b
KeyLess(a, b) ==
    \/ a[1] < b[1]
    \/ a[1] = b[1] /\ a[2] < b[2]
    \/ a[1] = b[1] /\ a[2] = b[2] /\ a[3] < b[3]

\* sorted() is stable: an element goes after every element not greater than it.
RECURSIVE InsertByKey(_, _)
InsertByKey(sorted, x) ==
    IF sorted = <<>> THEN <<x>>
    ELSE IF KeyLess(SortKey(x), SortKey(Head(sorted)))
         THEN <<x>> \o sorted
         ELSE <<Head(sorted)>> \o InsertByKey(Tail(sorted), x)

RECURSIVE Sorted(_)
Sorted(issues) ==
    IF issues = <<>> THEN <<>>
    ELSE InsertByKey(Sorted(Front(issues)), Last(issues))

\* wanted = set(req.tools or ["eslint", "ruff"])
Wanted(req) ==
    IF req.tools.kind = "none" \/ req.tools.items = {} THEN {"eslint", "ruff"}
    ELSE req.tools.items

NoToolList == [kind |-> "none"]
ToolList(items) == [kind |-> "list", items |-> items]

LfBlobs ==
    LintBlobs \cup
    { [path |-> AbsReqPath(<<"srv", "ws", "b.js">>), contents |-> <<LogLine>>],
      [path |-> RelPath(<<>>), contents |-> <<CodeLine>>] }     \* "."

LfRequests ==
    [kind : {"req"}, files : SeqsUpTo(LfBlobs, MaxLintFiles),
     tools : {NoToolList, ToolList({}), ToolList({"eslint"}), ToolList({"ruff"})}]

\* The handler's locals while it runs.
LfState(pc, proc, issues, status) ==
    [pc |-> pc, proc |-> proc, issues |-> issues, status |-> status,
     reply |-> Absent, scratch |-> "present"]

\* The sort, the reply and the finally clause.
LfFinish(s) ==
    [s EXCEPT !.pc = "done", !.proc = "none",
              !.reply = [kind |-> "ok", ok |-> TRUE, issues |-> Sorted(s.issues),
                         tools |-> s.status],
              !.scratch = "removed"]

\* From `if "ruff" in wanted` to where the handler next blocks or returns;
\* sp is what subprocess.run does: raise, or start a process that will exit
\* or that never will.
LfRuffStage(s, req, h, sp) ==
    IF "ruff" \notin Wanted(req) THEN LfFinish(s)
    ELSE IF ~LfToolFound("ruff", h)
         THEN LfFinish([s EXCEPT !.status = [@ EXCEPT !.ruff = "not found"]])
         ELSE IF sp = "fail"
              THEN LfFinish([s EXCEPT !.status = [@ EXCEPT !.ruff = "run failed"]])
              ELSE [s EXCEPT !.pc = "ruff", !.proc = sp]

\* From `if "eslint" in wanted` likewise.
LfEslintStage(s, req, h, sp1, sp2) ==
    IF "eslint" \notin Wanted(req) THEN LfRuffStage(s, req, h, sp2)
    ELSE IF ~LfToolFound("eslint", h)
         THEN LfRuffStage([s EXCEPT !.status = [@ EXCEPT !.eslint = "not found"]],
                          req, h, sp2)
         ELSE IF sp1 = "fail"
              THEN LfRuffStage([s EXCEPT !.status = [@ EXCEPT !.eslint = "run failed"]],
                               req, h, sp2)
              ELSE [s EXCEPT !.pc = "eslint", !.proc = sp1]

\* The result of a tool folded into issues and tool_status.
LfRecord(s, tool, result) ==
    [s EXCEPT !.issues = IF result.ok THEN @ \o result.issues ELSE @,
              !.status = IF tool = "eslint"
                         THEN [@ EXCEPT !.eslint = IF result.ok THEN "ok" ELSE result.error]
                         ELSE [@ EXCEPT !.ruff = IF result.ok THEN "ok" ELSE result.error]]

LfSet(s) ==
    /\ lfPc' = s.pc
    /\ lfProc' = s.proc
    /\ lfIssues' = s.issues
    /\ lfStatus' = s.status
    /\ lfReply' = s.reply
    /\ lfScratch' = s.scratch

NoStatus == [eslint |-> "unset", ruff |-> "unset"]

\* lint_files from its entry to where it first blocks or returns.
LfStart ==
    /\ lfPc = "idle" /\ lfReq # Absent
    /\ IF lfReq.files = <<>>
       THEN /\ lfReply' = Http(422)
            /\ lfPc' = "done"
            /\ UNCHANGED <<lfProc, lfIssues, lfStatus, lfScratch, lfTree>>
       ELSE LET wrote == WriteTempTree(lfReq.files)
            IN  /\ lfTree' = wrote.tree
                /\ IF ~wrote.ok
                   \* the exception leaves the handler before its try block
                   THEN /\ lfReply' = Http(500)
                        /\ lfPc' = "done"
                        /\ lfScratch' = "present"
                        /\ UNCHANGED <<lfProc, lfIssues, lfStatus>>
                   ELSE \E sp1 \in SpawnOutcomes, sp2 \in SpawnOutcomes :
                          LfSet(LfEslintStage(LfState("idle", "none", <<>>, NoStatus),
                                              lfReq, host, sp1, sp2))
    /\ UNCHANGED <<lfReq, host, trVars, fixVars, writeVars, lintVars, pfVars>>

\* subprocess.run of ESLint returns; the handler goes on to Ruff.
LfEslintExit ==
    /\ lfPc = "eslint" /\ lfProc = "live"
    /\ \E out \in LfOutputs(lfReq.files, "eslint"), sp \in SpawnOutcomes :
          LfSet(LfRuffStage(
                  LfRecord(LfState(lfPc, "none", lfIssues, lfStatus), "eslint",
                           LfParse("eslint", out)),
                  lfReq, host, sp))
    /\ UNCHANGED <<lfReq, lfTree, host, trVars, fixVars, writeVars, lintVars, pfVars>>

\* subprocess.run of Ruff returns; the handler sorts and replies.
LfRuffExit ==
    /\ lfPc = "ruff" /\ lfProc = "live"
    /\ \E out \in LfOutputs(lfReq.files, "ruff") :
          LfSet(LfFinish(
                  LfRecord(LfState(lfPc, "none", lfIssues, lfStatus), "ruff",
                           LfParse("ruff", out))))
    /\ UNCHANGED <<lfReq, lfTree, host, trVars, fixVars, writeVars, lintVars, pfVars>>

LfInit ==
    /\ lfReq \in LfRequests
    /\ lfPc = "idle" /\ lfProc = "none"
    /\ lfIssues = <<>> /\ lfStatus = NoStatus
    /\ lfReply = Absent /\ lfScratch = "none" /\ lfTree = {}

LfIdle ==
    /\ lfReq = Absent
    /\ lfPc = "idle" /\ lfProc = "none"
    /\ lfIssues = <<>> /\ lfStatus = NoStatus
    /\ lfReply = Absent /\ lfScratch = "none" /\ lfTree = {}

-----------------------------------------------------------------------------
(* The one-shot prefill buffers: roles_fixer._PREFILL, roles_reviewer._PREFILL *)
(* and reviewer_prefill._STORE.  The handlers are plain functions, which the  *)
(* framework runs on worker threads: a step is one access to the module       *)
(* global, and the steps of concurrent handlers interleave.                   *)

Gets == 1..MaxGets

\* The body of the k-th POST; a dict may be empty.
Payload(k, empty) == [id |-> k, empty |-> empty]

\* Python truth of the buffer: None and {} are false.
PfTruthy(v) == v # Absent /\ ~v.empty

PrefillReply(v) == [kind |-> "ok", prefill |-> v]

\* The POSTs seen so far.
Posted == MaxPosts - pfPending

\* set_prefill: `_PREFILL = payload or {}`, `_STORE = p`.  A ReviewerPrefill
\* model is never false.
SetPrefill ==
    /\ pfPending > 0
    /\ \E empty \in (IF pfKind = "checked" THEN BOOLEAN ELSE {FALSE}) :
          prefillBuf' = Payload(Posted + 1, empty)
    /\ pfPending' = pfPending - 1
    /\ UNCHANGED <<pfKind, getPc, getBuf, getReply>>
    /\ UNCHANGED <<trVars, fixVars, writeVars, host, lintVars, lfVars>>

\* roles_fixer.get_prefill, roles_reviewer.get_prefill: `if not _PREFILL:
\* return {"prefill": None}`
GetPrefillTest(g) ==
    /\ pfKind = "checked" /\ getPc[g] = "ready"
    /\ IF PfTruthy(prefillBuf)
       THEN /\ getPc' = [getPc EXCEPT ![g] = "tested"]
            /\ UNCHANGED getReply
       ELSE /\ getPc' = [getPc EXCEPT ![g] = "done"]
            /\ getReply' = [getReply EXCEPT ![g] = PrefillReply(Absent)]
    /\ UNCHANGED <<pfKind, prefillBuf, pfPending, getBuf>>
    /\ UNCHANGED <<trVars, fixVars, writeVars, host, lintVars, lfVars>>

\* `buf = _PREFILL`, `val = _STORE`
GetPrefillRead(g) ==
    /\ getPc[g] = (IF pfKind = "checked" THEN "tested" ELSE "ready")
    /\ getBuf' = [getBuf EXCEPT ![g] = prefillBuf]
    /\ getPc' = [getPc EXCEPT ![g] = "read"]
    /\ UNCHANGED <<pfKind, prefillBuf, pfPending, getReply>>
    /\ UNCHANGED <<trVars, fixVars, writeVars, host, lintVars, lfVars>>

\* `_PREFILL = None; return {"prefill": buf}`
GetPrefillClear(g) ==
    /\ getPc[g] = "read"
    /\ prefillBuf' = Absent
    /\ getReply' = [getReply EXCEPT ![g] = PrefillReply(getBuf[g])]
    /\ getPc' = [getPc EXCEPT ![g] = "done"]
    /\ UNCHANGED <<pfKind, pfPending, getBuf>>
    /\ UNCHANGED <<trVars, fixVars, writeVars, host, lintVars, lfVars>>

\* An empty buffer, with GET and POST requests about to be served.
PfInit ==
    /\ pfKind \in {"checked", "plain"}
    /\ prefillBuf = Absent
    /\ pfPending = MaxPosts
    /\ getPc = [g \in Gets |-> "ready"]
    /\ getBuf = [g \in Gets |-> Absent]
    /\ getReply = [g \in Gets |-> Absent]

PfIdle ==
    /\ pfKind = "checked"
    /\ prefillBuf = Absent
    /\ pfPending = 0
    /\ getPc = [g \in Gets |-> "none"]
    /\ getBuf = [g \in Gets |-> Absent]
    /\ getReply = [g \in Gets |-> Absent]

-----------------------------------------------------------------------------
(* Specifications *)

WriteInit ==
    /\ files \in Layouts
    /\ dirs = BaseDirs
    /\ touched = {}
    /\ now = 0
    /\ wReq = Absent
    /\ wReply = Absent

WriteIdle ==
    /\ files = BaseFiles /\ dirs = BaseDirs /\ touched = {} /\ now = 0
    /\ wReq = Absent /\ wReply = Absent

DoApplyAndSave ==
    /\ wReq = Absent
    /\ \E req \in WBatches : ApplyAndSave(req)
    /\ UNCHANGED <<trVars, fixVars, host, lintVars, lfVars, pfVars>>

DoSaveFiles ==
    /\ wReq = Absent
    /\ \E req \in WBatches, backup \in BOOLEAN, overwrite \in BOOLEAN :
          \E clk \in ClockReadings(Len(req), backup) :
              SaveFiles(req, backup, overwrite, clk)
    /\ UNCHANGED <<trVars, fixVars, host, lintVars, lfVars, pfVars>>

\* A workspace as found, and one write request on it.
WriteNext == DoApplyAndSave \/ DoSaveFiles

InitWrite ==
    WriteInit /\ TrIdle /\ FixIdle /\ host = NoTools /\ LintIdle /\ LfIdle /\ PfIdle

SpecWrite == InitWrite /\ [][WriteNext]_vars

\* transform on one text, and again on its output.
TrNext == Transform \/ TransformAgain

InitTransform ==
    TrInit /\ FixIdle /\ WriteIdle /\ host = NoTools /\ LintIdle /\ LfIdle /\ PfIdle

SpecTransform == InitTransform /\ [][TrNext]_vars

\* suggest_patches and apply on one request.
FixNext == SuggestPatches \/ Apply

InitFix ==
    FixInit /\ TrIdle /\ WriteIdle /\ host = NoTools /\ LintIdle /\ LfIdle /\ PfIdle

SpecFix == InitFix /\ [][FixNext]_vars

\* One call of roles_reviewer.lint and its tool processes.
LintNext ==
    \/ LintStart
    \/ \E t \in TaskIdx : TaskStart(t)
    \/ \E t \in TaskIdx : ProcExit(t)
    \/ \E t \in TaskIdx : ProcTimeout(t)
    \/ GatherEslint
    \/ GatherRuff

InitLint ==
    LintInit /\ TrIdle /\ FixIdle /\ WriteIdle /\ LfIdle /\ PfIdle

SpecLint == InitLint /\ [][LintNext]_vars

\* One call of roles_reviewer_lint.lint_files and its tool processes.
LfNext == LfStart \/ LfEslintExit \/ LfRuffExit

InitLintFiles ==
    LfInit /\ host \in LintHosts /\ TrIdle /\ FixIdle /\ WriteIdle /\ LintIdle /\ PfIdle

SpecLintFiles == InitLintFiles /\ [][LfNext]_vars

\* GET and POST requests on one prefill buffer, served concurrently.
PfNext ==
    \/ SetPrefill
    \/ \E g \in Gets : GetPrefillTest(g)
    \/ \E g \in Gets : GetPrefillRead(g)
    \/ \E g \in Gets : GetPrefillClear(g)

InitPrefill ==
    PfInit /\ TrIdle /\ FixIdle /\ WriteIdle /\ host = NoTools /\ LintIdle /\ LfIdle

SpecPrefill == InitPrefill /\ [][PfNext]_vars

\* lint on an event loop that runs every ready task, with processes that exit
\* or are timed out.
SpecLintFair == InitLint /\ [][LintNext]_vars /\ WF_vars(LintNext)

\* The program serving one request, of any of its handlers.
Init ==
    \/ InitTransform \/ InitFix \/ InitWrite \/ InitLint \/ InitLintFiles
    \/ InitPrefill

\* No request of another handler is being served.
OnlyWriting ==
    /\ tIn = Absent /\ fixReq = Absent /\ lintReq = Absent /\ lfReq = Absent
    /\ \A g \in Gets : getPc[g] = "none"

\* One request at a time: a write request is taken up only on an idle program.
Next ==
    \/ TrNext \/ FixNext \/ LintNext \/ LfNext \/ PfNext
    \/ (OnlyWriting /\ DoApplyAndSave)
    \/ (OnlyWriting /\ DoSaveFiles)

Spec == Init /\ [][Next]_vars

-----
(* Properties *)

\* A location is the workspace root or a descendant of it.
InsideRoot(abs) ==
    /\ Len(abs) >= Len(Root)
    /\ \A i \in 1..Len(Root) : abs[i] = Root[i]

WFileIdx == IF wReq = Absent THEN {} ELSE 1..Len(wReq.files)
WPath(i) == wReq.files[i].path
Escapes(path) == ~InsideRoot(AbsPath(path))

\* C1: whatever paths an apply_and_save or a workspace save request names,
\* nothing is created or written outside the workspace root (files and
\* directories found outside it are as they were), and every path resolving
\* outside the root is refused: apply_and_save records a refusal for it and
\* does not report it written, save_files answers 400.
C1_NoWriteOutsideRoot ==
    /\ \A p \in touched : InsideRoot(p)
    /\ \A p \in DOMAIN files :
          ~InsideRoot(p) => p \in DOMAIN BaseFiles /\ files[p] = BaseFiles[p]
    /\ \A d \in dirs : ~InsideRoot(d) => d \in BaseDirs
    /\ \A i \in WFileIdx :
          Escapes(WPath(i)) =>
             IF wReq.kind = "apply_and_save"
             THEN /\ wReply.kind = "ok"
                  /\ \E k \in 1..Len(wReply.errors) :
                        /\ wReply.errors[k].kind = "refused"
                        /\ wReply.errors[k].path = WPath(i)
                  /\ \A k \in 1..Len(wReply.files_written) :
                        wReply.files_written[k] # AbsPath(WPath(i))
             ELSE wReply = Http(400)

\* C1 witness: apply_and_save was given "../secret" beside a good file; the
\* good file was written and the bad one refused.
C1_Witness ==
    /\ wReq.kind = "apply_and_save"
    /\ \E i \in WFileIdx : WPath(i) = RelPath(<<"..", "secret">>)
    /\ wReply.kind = "ok"
    /\ wReply.written >= 1
    /\ \E k \in 1..Len(wReply.errors) : wReply.errors[k].kind = "refused"

\* A file that would be written if it were alone in the request: a plain
\* relative path under the root, nothing in the way, overwriting allowed.
GoodSibling(i) ==
    /\ WPath(i) \in {RelPath(<<"ok.txt">>), RelPath(<<"a", "app.js">>)}
    /\ (Root \o <<"a">>) \notin DOMAIN files
    /\ wReq.kind = "save" => wReq.overwrite

ReportedWritten(i) ==
    /\ AbsPath(WPath(i)) \in DOMAIN files
    /\ IF wReq.kind = "apply_and_save"
       THEN \E k \in 1..Len(wReply.files_written) :
               wReply.files_written[k] = AbsPath(WPath(i))
       ELSE \E k \in 1..Len(wReply.results) :
               wReply.results[k].path = WPath(i) /\ wReply.results[k].saved

\* C2: in a batch write, a path resolving outside the root fails only that
\* file: the call still returns per-file results, and every other file of the
\* batch whose path is inside the root is written and reported as written,
\* before or after the offending file.
C2_EscapeFailsOnlyThatFile ==
    (\E j \in WFileIdx : Escapes(WPath(j))) =>
        /\ wReply.kind = "ok"
        /\ \A i \in WFileIdx : GoodSibling(i) => ReportedWritten(i)

\* C9: transform is idempotent: applying it to its own output, for the same
\* file type and strategy, returns that output unchanged.
C9_TransformIdempotent ==
    tOut2 # Absent => tOut2.new = tOut1.new

FixFileIdx == IF fixReq = Absent THEN {} ELSE 1..Len(fixReq.files)

\* C10: for every file for which suggest_patches emitted a patch, apply on the
\* same request returns exactly the contents of the patch's after-side.
C10_ApplyMatchesPatch ==
    (suggestReply.kind = "ok" /\ applyReply.kind = "ok") =>
        \A k \in 1..Len(suggestReply.patches), i \in FixFileIdx :
            LET patch == suggestReply.patches[k]
            IN  (/\ fixReq.files[i].path = patch.path
                 /\ KeepEnds(fixReq.files[i].contents) = patch.diff.from)
                => KeepEnds(applyReply.files[i].contents) = patch.diff.to

-----------------------------------------------------------------------------
(* Properties of Lint *)

LintAnswered == lintPc = "done" /\ lintReply # Absent /\ lintReply.kind = "ok"

LintFileIdx == 1..Len(lintReq.files)

\* C3: whatever the tool invocations of a Lint call do (no tool to run, a
\* timeout, an abnormal exit, an exception inside the task, output that does
\* not parse), the call on a non-empty file list ends in a normal reply.
C3_ToolFailuresNeverFailLint ==
    (lintPc = "done" /\ lintReq.files # <<>>) => lintReply.kind = "ok"

\* A finished call in which one task raised and another was killed on timeout.
C3_Witness ==
    /\ LintAnswered
    /\ \E t \in TaskIdx, u \in TaskIdx :
          /\ tasks[t].res = Raised
          /\ tasks[u].proc = "killed"

\* C4: every tool invocation of a Lint call is bounded by a timeout; a process
\* that never finishes by itself cannot keep its invocation waiting for ever,
\* so while one is running the call always has a next step.
C4_EveryInvocationBounded ==
    lfProc = "hung" => ENABLED LfNext

\* C5: in a finished Lint call, the issues of every invocation that returned
\* issues are in the reply, also when other invocations were killed on timeout.
C5_SiblingsSurviveTimeout ==
    LintAnswered =>
        \A t \in TaskIdx :
            tasks[t].res.kind = "issues" =>
                \A k \in 1..Len(tasks[t].res.issues) :
                    \E j \in 1..Len(lintReply.issues) :
                        lintReply.issues[j] = tasks[t].res.issues[k]

\* One invocation was killed on timeout, a sibling's process exited with issues.
C5_Witness ==
    /\ LintAnswered
    /\ \E t \in TaskIdx, u \in TaskIdx :
          /\ t # u
          /\ tasks[t].proc = "killed"
          /\ tasks[u].proc = "exited"
          /\ tasks[u].res.kind = "issues"
          /\ tasks[u].res.issues # <<>>

SeverityRank(sev) ==
    CASE sev = "error" -> 0 [] sev = "warning" -> 1 [] OTHER -> 2

\* An absolute path string begins with "/" and sorts before the relative ones.
FileRank(file) ==
    IF file.form = "abs" THEN PathRank(file.path) ELSE 10 + PathRank(file.path)

OrderKey(i) == <<FileRank(i.file), i.line, SeverityRank(i.severity)>>

InOrder(issues) ==
    \A k \in 1..(Len(issues) - 1) :
        ~KeyLess(OrderKey(issues[k + 1]), OrderKey(issues[k]))

\* C6: the issues of a Lint reply are in order of file path, then line, then
\* severity with error before warning before info.
C6_IssuesSorted ==
    LintAnswered => InOrder(lintReply.issues)

HasDebugStatement(fs) ==
    \E i \in 1..Len(fs) :
        \E k \in 1..Len(SplitLines(fs[i].contents)) :
            HasConsoleLog(SplitLines(fs[i].contents)[k])

\* C7: on a host where no tool is available, Lint on files of which one has a
\* debug statement returns at least one issue of source "inline".
C7_FallbackWhenNoTools ==
    (/\ lfPc = "done" /\ lfReply.kind = "ok"
     /\ host = NoTools
     /\ HasDebugStatement(lfReq.files))
        => \E j \in 1..Len(lfReply.issues) : lfReply.issues[j].source = "inline"

ToolsProduced ==
    \E t \in TaskIdx :
        tasks[t].res.kind = "issues" /\ tasks[t].res.issues # <<>>

InlineAt(path, line, severity) ==
    \E j \in 1..Len(lintReply.issues) :
        lintReply.issues[j] = Issue(FileRef("rel", path), line, severity, "inline")

\* C8: a Lint reply holds the fallback scan of every submitted file exactly
\* when the tools together produced no issue; when some tool produced an
\* issue, no issue of the reply has source "inline".
C8_FallbackExactlyWhenEmpty ==
    LintAnswered =>
        /\ ToolsProduced =>
              \A j \in 1..Len(lintReply.issues) :
                  lintReply.issues[j].source # "inline"
        /\ ~ToolsProduced =>
              /\ \A j \in 1..Len(lintReply.issues) :
                    lintReply.issues[j].source = "inline"
              /\ \A i \in LintFileIdx :
                    \A k \in 1..Len(SplitLines(lintReq.files[i].contents)) :
                        LET line == SplitLines(lintReq.files[i].contents)[k]
                            path == lintReq.files[i].path
                        IN  /\ HasConsoleLog(line) => InlineAt(path, k, "warning")
                            /\ HasTodo(line) => InlineAt(path, k, "info")

\* No tool produced an issue, one invocation was killed, and the reply has the
\* scan of a file that no tool was run on as well as that of the failed one.
C8_Witness ==
    /\ LintAnswered /\ ~ToolsProduced
    /\ \E t \in TaskIdx : tasks[t].proc = "killed"
    /\ \E i \in LintFileIdx, j \in LintFileIdx :
          /\ \A t \in TaskIdx : tasks[t].file # i
          /\ \E t \in TaskIdx : tasks[t].file = j /\ tasks[t].proc = "killed"
          /\ \E k \in 1..Len(lintReply.issues) :
                lintReply.issues[k].file.path = lintReq.files[i].path
          /\ \E k \in 1..Len(lintReply.issues) :
                lintReply.issues[k].file.path = lintReq.files[j].path

-----------------------------------------------------------------------------
(* Properties of the transform and of the patches *)

\* C11: under the safe strategy the transform deletes no line: its output has
\* at least as many lines as its input (a matched line is kept, commented out
\* or annotated).
C11_SafeNeverDeletesLines ==
    (tOut1 # Absent /\ tIn.strategy = "safe") =>
        Len(SplitLines(tOut1.new)) >= Len(SplitLines(tIn.contents))

\* Whether a rule of the file type's transform matches the line.
RuleMatches(ext, line, strategy) ==
    IF ext \in JsLikeExt
    THEN \/ MatchConsoleLog(line)
         \/ MatchJsTodo(line)
         \/ strategy = "aggressive" /\ SubAny(line) # line
    ELSE IF ext = ".py"
    THEN \/ MatchPyTodo(line)
         \/ strategy = "aggressive" /\ MatchImport(line)
    ELSE FALSE

NoRuleMatches(ext, contents, strategy) ==
    \A i \in 1..Len(SplitLines(contents)) :
        ~RuleMatches(ext, SplitLines(contents)[i], strategy)

\* C12: when no rule matches any line of the file (or its type has no rules),
\* the transform reports no diff and returns the contents unchanged, whatever
\* newlines the contents end in.
C12_NoRuleNoChange ==
    (tOut1 # Absent /\ NoRuleMatches(tIn.ext, tIn.contents, tIn.strategy)) =>
        /\ tOut1.diff = Absent
        /\ tOut1.new = tIn.contents

SuggestAnswered == suggestReply # Absent /\ suggestReply.kind = "ok"

\* What the transform makes of file i of the request.
Suggested(i) ==
    SuggestForFile(fixReq.files[i].path, fixReq.files[i].contents, fixReq.strategy)

ChangedByTransform(i) == Suggested(i).new # fixReq.files[i].contents

\* File i is not excluded by only_paths (an empty list names no file).
NamedByOnlyPaths(i) ==
    fixReq.only_paths = Absent \/ fixReq.files[i].path \in fixReq.only_paths.paths

PatchFor(k, i) ==
    /\ suggestReply.patches[k].path = fixReq.files[i].path
    /\ suggestReply.patches[k].diff.kind = "diff"
    /\ suggestReply.patches[k].diff.from = KeepEnds(fixReq.files[i].contents)
    /\ suggestReply.patches[k].diff.to = KeepEnds(Suggested(i).new)

C14_OnlyPathsRestricts ==
    SuggestAnswered =>
        \A k \in 1..Len(suggestReply.patches) :
            /\ \E i \in FixFileIdx : fixReq.files[i].path = suggestReply.patches[k].path
            /\ fixReq.only_paths # Absent =>
                  suggestReply.patches[k].path \in fixReq.only_paths.paths

-----------------------------------------------------------------------------
(* Properties of the workspace writers *)

SaveAnswered == wReq.kind = "save" /\ wReply.kind = "ok"

\* The sibling names a backup of target can have.
StampedSiblings(target) ==
    { Append(Front(target), Last(target) \o "." \o ToString(ts) \o ".bak") :
          ts \in 0..(MaxClock + 1) }

\* C15: when overwrite is false and a save is refused because its target
\* exists, nothing is written for that file: no backup is reported for it and
\* no backup file of the target is on disk, whatever the value of backup.
C15_NoWriteWhenOverwriteOff ==
    (SaveAnswered /\ ~wReq.overwrite) =>
        \A i \in 1..Len(wReply.results) :
            (~wReply.results[i].saved /\ wReply.results[i].message = "exists") =>
                /\ wReply.results[i].backup_path = NoBak
                /\ \A b \in StampedSiblings(AbsPath(WPath(i))) : b \notin DOMAIN files

LastOf(S) == CHOOSE j \in S : \A k \in S : k <= j

\* For every file of a save that replaced an existing target: a stamped
\* sibling of the target is reported as its backup and is on disk, and (unless
\* a later file of the request was given the same backup name) it holds what
\* the target held just before this file was written.
BackupKept(req, results, before, after) ==
    \A i \in 1..Len(results) :
        LET tgt     == AbsPath(req[i].path)
            earlier == {j \in 1..(i - 1) :
                           results[j].saved /\ AbsPath(req[j].path) = tgt}
            existed == tgt \in DOMAIN before \/ earlier # {}
            pre     == IF earlier # {} THEN req[LastOf(earlier)].contents
                       ELSE before[tgt]
            bak     == results[i].backup_path
        IN  (results[i].saved /\ existed) =>
                /\ bak.kind = "path"
                /\ bak.at \in StampedSiblings(tgt)
                /\ bak.at \in DOMAIN after
                /\ (\A k \in (i + 1)..Len(results) : results[k].backup_path # bak)
                      => after[bak.at] = pre

\* C16: a save with backup=true that overwrites an existing target has first
\* copied the target's contents to a timestamped sibling, whose path the
\* file's SaveResult reports as backup_path.
C16_BackupBeforeOverwrite ==
    [][ (wReq'.kind = "save" /\ wReq'.backup /\ wReply'.kind = "ok") =>
            BackupKept(wReq'.files, wReply'.results, files, files') ]_vars

\* ok.txt was there, was saved over with a backup: the backup holds the old
\* text and the target the new one.
C16_Witness ==
    /\ SaveAnswered /\ wReq.backup
    /\ \E i \in WFileIdx :
          /\ wReply.results[i].saved
          /\ wReply.results[i].backup_path.kind = "path"
          /\ wReply.results[i].backup_path.at \in DOMAIN files
          /\ files[wReply.results[i].backup_path.at] = OldText
          /\ files[AbsPath(WPath(i))] = wReq.files[i].contents

ApplyAndSaveAnswered == wReq.kind = "apply_and_save" /\ wReply.kind = "ok"

\* C17: apply_and_save accounts for every input file exactly once: each
\* request path has as many entries in files_written and errors together as
\* it has files in the request, written counts files_written, and files has
\* one entry per input file in request order.
C17_EveryFileAccounted ==
    ApplyAndSaveAnswered =>
        /\ Len(wReply.files_written) + Len(wReply.errors) = Len(wReq.files)
        /\ wReply.written = Len(wReply.files_written)
        /\ Len(wReply.files) = Len(wReq.files)
        /\ \A i \in WFileIdx : wReply.files[i].path = WPath(i)
        /\ \A a \in {AbsPath(WPath(i)) : i \in WFileIdx} :
              Cardinality({k \in 1..Len(wReply.files_written) :
                              wReply.files_written[k] = a})
              + Cardinality({k \in 1..Len(wReply.errors) :
                                AbsPath(wReply.errors[k].path) = a})
              = Cardinality({i \in WFileIdx : AbsPath(WPath(i)) = a})

\* A write failure on the first file and the second file written all the same.
C17_Witness ==
    /\ ApplyAndSaveAnswered
    /\ Len(wReq.files) >= 2
    /\ \E k \in 1..Len(wReply.errors) :
          wReply.errors[k].kind = "io" /\ wReply.errors[k].path = WPath(1)
    /\ \E k \in 1..Len(wReply.files_written) :
          wReply.files_written[k] = AbsPath(WPath(2))

-----------------------------------------------------------------------------
(* Properties of the Lint replies and of the scratch directory *)

\* What the reply says of a tool, "unset" when it says nothing.
ToolStatusIn(reply, tool) ==
    IF "tools" \in DOMAIN reply
    THEN (IF tool = "eslint" THEN reply.tools.eslint ELSE reply.tools.ruff)
    ELSE "unset"

\* C18: a tool whose invocation was killed on timeout during a Lint call is
\* marked as timed out in the reply's per-tool status.
C18_FailuresRecorded ==
    LintAnswered =>
        \A t \in TaskIdx :
            tasks[t].proc = "killed" =>
                ToolStatusIn(lintReply, tasks[t].tool) = "timed out"

\* C19: the file of every issue of a Lint reply is the path of one of the
\* submitted files, in the form the caller gave it.
C19_IssueFileIsSubmittedPath ==
    LintAnswered =>
        \A j \in 1..Len(lintReply.issues) :
            /\ lintReply.issues[j].file.form = "rel"
            /\ \E i \in LintFileIdx :
                  lintReq.files[i].path = lintReply.issues[j].file.path

\* C20: when a lint_files request has ended, on any exit path, its scratch
\* directory is no longer there.
C20_ScratchRemoved ==
    lfPc = "done" => lfScratch # "present"

-----------------------------------------------------------------------------
(* Properties of the handlers together *)

ValidationError == [kind |-> "http", status |-> 422]

\* C21: a request with an empty file list gets a validation error from each
\* handler (lint, lint_files, suggest_patches, apply, apply_and_save, save),
\* and nothing has been done for it: no task or process was started, no
\* scratch directory made, no file or directory written.
C21_EmptyRequestRejected ==
    /\ (wReq # Absent /\ wReq.files = <<>>) =>
          /\ wReply = ValidationError
          /\ touched = {}
          /\ files \in Layouts /\ dirs = BaseDirs
    /\ (fixReq # Absent /\ fixReq.files = <<>>) =>
          /\ suggestReply # Absent => suggestReply = ValidationError
          /\ applyReply # Absent => applyReply = ValidationError
    /\ (lintReq # Absent /\ lintReq.files = <<>>) =>
          /\ tasks = <<>>
          /\ lintPc = "done" => lintReply = ValidationError
    /\ (lfReq # Absent /\ lfReq.files = <<>>) =>
          /\ lfProc = "none" /\ lfScratch = "none" /\ lfTree = {}
          /\ lfPc = "done" => lfReply = ValidationError

\* A save of no files on a workspace holding ok.txt was refused and ok.txt is
\* as it was.
C21_Witness ==
    /\ wReq.kind = "save" /\ wReq.files = <<>>
    /\ wReply = ValidationError
    /\ (Root \o <<"ok.txt">>) \in DOMAIN files
    /\ files[Root \o <<"ok.txt">>] = OldText

-----------------------------------------------------------------------------
(* Properties of the scheduling of tool invocations *)

RuffWillRun == "ruff" \in Wanted(lfReq) /\ LfToolFound("ruff", host)

\* C22: every invocation of a Lint call is started before the call waits on
\* any of them: while the call waits on a tool process, the other tool it is
\* going to run has been started too.
C22_AllStartedBeforeWaiting ==
    (lfPc = "eslint" /\ lfProc \in {"live", "hung"} /\ RuffWillRun) =>
        lfStatus.ruff # "unset"

NoInvocationRunning ==
    \A t \in TaskIdx :
        tasks[t].st = "done" /\ tasks[t].proc \in {"none", "exited", "killed"}

\* C23: a Lint reply is built only when every invocation of the call has
\* finished or been killed, and every Lint call eventually returns.
C23_ReplyAfterAllAndTermination ==
    /\ [](lintPc = "done" => NoInvocationRunning)
    /\ <>(lintPc = "done")

\* A call answered after one process exited and another was killed.
C23_Witness ==
    /\ LintAnswered /\ Len(tasks) = 2
    /\ tasks[1].proc = "exited" /\ tasks[2].proc = "killed"

\* The issues of tasks 1..n in task order.
RECURSIVE IssuesInTaskOrder(_)
IssuesInTaskOrder(n) ==
    IF n = 0 THEN <<>>
    ELSE IssuesInTaskOrder(n - 1)
         \o (IF tasks[n].res.kind = "issues" THEN tasks[n].res.issues ELSE <<>>)

\* C24: the issue list of a Lint reply is determined by the request and the
\* results of its invocations alone, whatever order they completed in: it is
\* their issues in task order, or the scan of the request when there are none.
C24_ReplyIndependentOfCompletionOrder ==
    LintAnswered =>
        lintReply.issues =
            IF IssuesInTaskOrder(Len(tasks)) # <<>>
            THEN IssuesInTaskOrder(Len(tasks))
            ELSE InlineFallbackScan(lintReq.files)

\* Two invocations of the same tool both returned issues.
C24_Witness ==
    /\ LintAnswered /\ Len(tasks) = 2
    /\ tasks[1].tool = tasks[2].tool
    /\ tasks[1].res.kind = "issues" /\ tasks[1].res.issues # <<>>
    /\ tasks[2].res.kind = "issues" /\ tasks[2].res.issues # <<>>
    /\ tasks[1].res.issues # tasks[2].res.issues

-----------------------------------------------------------------------------
(* Properties of tool availability and of the parsing of tool output *)

\* The tool's binary or a launcher of it is on the host.
Resolvable(tool, h) ==
    IF tool = "eslint" THEN h.npx \/ h.eslint ELSE h.ruff \/ h.pyexe

\* C25: when neither the binary of a tool nor a launcher of it is resolvable
\* on the host, an invocation of that tool has no process and yields the
\* empty (unavailable) result, in lint and in lint_files, for both tools.
C25_UnresolvableToolNeverSpawned ==
    /\ \A t \in TaskIdx :
          ~Resolvable(tasks[t].tool, host) =>
              /\ tasks[t].proc = "none"
              /\ tasks[t].st \in {"pending", "done"}
              /\ tasks[t].st = "done" => tasks[t].res = Returned(<<>>)
    /\ \A tool \in {"eslint", "ruff"} :
          (lfReq # Absent /\ ~Resolvable(tool, host)) =>
              /\ lfPc # tool
              /\ lfStatus[tool] \in {"unset", "not found"}

\* On a host without tools both kinds of invocation ended without a process.
C25_Witness ==
    /\ LintAnswered /\ host = NoTools /\ Len(tasks) = 2
    /\ tasks[1].tool = "eslint" /\ tasks[2].tool = "ruff"
    /\ \A t \in TaskIdx : tasks[t].st = "done" /\ tasks[t].proc = "none"

\* C26: normalizing the output of a tool never raises: a runner whose process
\* has exited returns a list of issues, whatever the process wrote.
C26_NormalizingNeverRaises ==
    \A t \in TaskIdx :
        (tasks[t].st = "done" /\ tasks[t].proc = "exited") =>
            tasks[t].res.kind = "issues"

\* C27: the health report and lint agree on availability: lint starts a
\* process for a tool only on a host where the report says the tool is there.
C27_HealthAgreesWithLint ==
    \A t \in TaskIdx :
        tasks[t].proc # "none" => LintHealth(host)[tasks[t].tool]

-----------------------------------------------------------------------------
(* Properties of the prefill buffers *)

Delivered(g) == getReply[g] # Absent /\ getReply[g].prefill # Absent

\* C28: a staged payload is delivered at most once: no two GET requests are
\* answered with the payload of the same POST, however the handlers interleave.
C28_DeliveredAtMostOnce ==
    \A g1 \in Gets, g2 \in Gets :
        (g1 # g2 /\ Delivered(g1) /\ Delivered(g2)) =>
            getReply[g1].prefill.id # getReply[g2].prefill.id

-----------------------------------------------------------------------------
(* Properties of the scratch tree and of the backups *)

\* C29: every file that lint_files materialises lies inside its scratch
\* directory, whatever paths the request names.
C29_TreeInsideScratch ==
    \A p \in lfTree : IsPrefix(ScratchDir, p)

\* C30: a backup is never overwritten by a later backup: the overwrites of a
\* save with backup=true are given pairwise distinct backup paths, also when
\* they happen within the same clock second.
C30_BackupsNeverOverwritten ==
    (SaveAnswered /\ wReq.backup) =>
        \A i \in WFileIdx, j \in WFileIdx :
            (i < j /\ wReply.results[i].saved /\ wReply.results[j].saved
                   /\ wReply.results[i].backup_path # NoBak
                   /\ wReply.results[j].backup_path # NoBak) =>
                wReply.results[i].backup_path # wReply.results[j].backup_path

====
